---- MODULE Spec2Model ----
(***************************************************************************)
(* Model of habit_tracker.py: a Streamlit habit tracker whose data lives   *)
(* in four Supabase tables (users, access_codes, habits, completions).     *)
(* Every browser session runs the script in its own thread; the unit of    *)
(* atomicity is one call to the data store.                                *)
(***************************************************************************)
EXTENDS Integers, Naturals, Sequences, FiniteSets, TLC

(***************************************************************************)
(* Calendar: datetime values restricted to their date fields.              *)
(***************************************************************************)

\* The first day the calendar represents, of ordinal 0: datetime(2016, 1, 1),
\* whose weekday() is 4, a Friday (Monday is 0).
Epoch == [year |-> 2016, weekday |-> 4]

IsLeap(y) == (y % 4 = 0 /\ y % 100 # 0) \/ y % 400 = 0

DaysInYear(y) == IF IsLeap(y) THEN 366 ELSE 365

DaysInMonth(y, m) ==
    IF m = 2 THEN (IF IsLeap(y) THEN 29 ELSE 28)
    ELSE IF m \in {4, 6, 9, 11} THEN 30 ELSE 31

RECURSIVE DaysBeforeYear(_)
DaysBeforeYear(y) ==
    IF y <= Epoch.year THEN 0 ELSE DaysBeforeYear(y - 1) + DaysInYear(y - 1)

RECURSIVE DaysBeforeMonth(_, _)
DaysBeforeMonth(y, m) ==
    IF m <= 1 THEN 0 ELSE DaysBeforeMonth(y, m - 1) + DaysInMonth(y, m - 1)

\* tm_yday, 0-based
YearDay(date) == DaysBeforeMonth(date.year, date.month) + date.day - 1

ToOrdinal(date) == DaysBeforeYear(date.year) + YearDay(date)

RECURSIVE YearOfOrdinal(_, _)
YearOfOrdinal(o, y) ==
    IF o < DaysInYear(y) THEN <<y, o>> ELSE YearOfOrdinal(o - DaysInYear(y), y + 1)

RECURSIVE MonthOfYearDay(_, _, _)
MonthOfYearDay(y, yd, m) ==
    IF yd < DaysInMonth(y, m) THEN <<m, yd + 1>>
    ELSE MonthOfYearDay(y, yd - DaysInMonth(y, m), m + 1)

FromOrdinal(o) ==
    LET yo == YearOfOrdinal(o, Epoch.year)
        md == MonthOfYearDay(yo[1], yo[2], 1)
    IN  [year |-> yo[1], month |-> md[1], day |-> md[2]]

\* date - timedelta(days = n)
MinusDays(date, n) == FromOrdinal(ToOrdinal(date) - n)

\* date.weekday(), Monday = 0
Weekday(date) == (Epoch.weekday + ToOrdinal(date)) % 7

\* strftime("%W"): week of the year with Monday as the first day of the week;
\* the days before the first Monday are in week 0.
WeekOfYear(date) == (YearDay(date) + 7 - Weekday(date)) \div 7

\* date.replace(year = y, month = m): ValueError when the day does not exist.
ReplaceRaises(date, y, m) == date.day > DaysInMonth(y, m)

Replace(date, y, m) == [year |-> y, month |-> m, day |-> date.day]

(***************************************************************************)
(* Period keys.  The three strftime formats ("%Y-%m-%d", "%Y-W%W",         *)
(* "%Y-%m") never produce the same string, so a key is the tuple of the    *)
(* format and the fields it prints.                                        *)
(***************************************************************************)
KnownTypes == {"daily", "weekly", "monthly"}

get_period_key(habit_type, date) ==
    IF habit_type = "daily" THEN <<"%Y-%m-%d", date.year, date.month, date.day>>
    ELSE IF habit_type = "weekly" THEN <<"%Y-W%W", date.year, WeekOfYear(date)>>
    ELSE IF habit_type = "monthly" THEN <<"%Y-%m", date.year, date.month>>
    ELSE <<"%Y-%m-%d", date.year, date.month, date.day>>

(***************************************************************************)
(* get_streak.  completions is the dict of load_completions seen as the    *)
(* set of <<period_key, habit_name>> pairs it holds.  The loop is kept as  *)
(* its state [streak, check_date, at]: at is "loop" at the top of the      *)
(* while, "return" after a break and "ValueError" when datetime.replace    *)
(* has thrown.                                                             *)
(***************************************************************************)
StreakLimit == 365

\* check_date.replace(...) of lines 187-190 throws
StepBackRaises(habit_type, check_date) ==
    /\ habit_type = "monthly"
    /\ IF check_date.month = 1
       THEN ReplaceRaises(check_date, check_date.year - 1, 12)
       ELSE ReplaceRaises(check_date, check_date.year, check_date.month - 1)

\* check_date after lines 182-190
StepBack(habit_type, check_date) ==
    IF habit_type = "daily" THEN MinusDays(check_date, 1)
    ELSE IF habit_type = "weekly" THEN MinusDays(check_date, 7)
    ELSE IF habit_type = "monthly"
         THEN IF check_date.month = 1
              THEN Replace(check_date, check_date.year - 1, 12)
              ELSE Replace(check_date, check_date.year, check_date.month - 1)
    ELSE check_date

streak_enter(now) == [streak |-> 0, check_date |-> now, at |-> "loop"]

\* one pass of the body of the while loop
streak_body(l, habit_name, habit_type, completions) ==
    IF <<get_period_key(habit_type, l.check_date), habit_name>> \in completions
    THEN IF StepBackRaises(habit_type, l.check_date)
         THEN [streak |-> l.streak + 1, check_date |-> l.check_date, at |-> "ValueError"]
         ELSE [streak |-> l.streak + 1,
               check_date |-> StepBack(habit_type, l.check_date),
               at |-> IF l.streak + 1 > StreakLimit THEN "return" ELSE "loop"]
    ELSE [l EXCEPT !.at = "return"]

RECURSIVE streak_loop(_, _, _, _)
streak_loop(l, habit_name, habit_type, completions) ==
    IF l.at # "loop" THEN l
    ELSE streak_loop(streak_body(l, habit_name, habit_type, completions),
                     habit_name, habit_type, completions)

\* The result is [raised, streak]: raised when the call ended in ValueError.
get_streak(habit_name, habit_type, completions, now) ==
    LET l == streak_loop(streak_enter(now), habit_name, habit_type, completions)
    IN  [raised |-> l.at = "ValueError", streak |-> l.streak]

(***************************************************************************)
(* The data store.  users and access_codes are tables with a unique key    *)
(* (username, code); habits and completions have none, so they are bags    *)
(* of rows: a function from each stored row to its number of copies.       *)
(***************************************************************************)
EmptyBag == [r \in {} |-> 0]

BagInsert(b, r) ==
    [x \in DOMAIN b \cup {r} |->
        IF x = r THEN (IF r \in DOMAIN b THEN b[r] + 1 ELSE 1) ELSE b[x]]

RECURSIVE BagSizeOver(_, _)
BagSizeOver(b, rows) ==
    IF rows = {} THEN 0
    ELSE LET r == CHOOSE x \in rows : TRUE
         IN  b[r] + BagSizeOver(b, rows \ {r})

BagSize(b) == BagSizeOver(b, DOMAIN b)

NoUser == "None"

\* hashlib.sha256(password.encode()).hexdigest(): a digest, distinct from the
\* password and (on the passwords of the model) free of collisions.
hash_password(password) == <<"sha256", password>>

verify_access_code(access_codes, code) ==
    {r \in access_codes : r.code = code /\ r.used = FALSE} # {}

mark_access_code_used(access_codes, code, username) ==
    {IF r.code = code THEN [r EXCEPT !.used = TRUE, !.used_by = username] ELSE r
        : r \in access_codes}

\* create_user whose failed insert has stored the row all the same
create_user_partial_write(users, username, password, dbFail) ==
    IF dbFail \/ \E r \in users : r.username = username
    THEN [ok |-> FALSE,
          users |-> {r \in users : r.username # username}
                       \cup {[username |-> username,
                              password_hash |-> hash_password(password)]}]
    ELSE [ok |-> TRUE,
          users |-> users \cup {[username |-> username,
                                 password_hash |-> hash_password(password)]}]

\* create_user that returns True when the insert raised
create_user_swallows_error(users, username, password, dbFail) ==
    IF dbFail \/ \E r \in users : r.username = username
    THEN [ok |-> TRUE, users |-> users]
    ELSE [ok |-> TRUE,
          users |-> users \cup {[username |-> username,
                                 password_hash |-> hash_password(password)]}]

\* The insert raises when the store fails (dbFail) or when the username, the
\* key of the table, is already present; create_user then returns False.
create_user(users, username, password, dbFail) ==
    IF dbFail \/ \E r \in users : r.username = username
    THEN [ok |-> FALSE, users |-> users]
    ELSE [ok |-> TRUE,
          users |-> users \cup {[username |-> username,
                                 password_hash |-> hash_password(password)]}]

\* verify_user without the filter on password_hash
verify_user_any_password(users, username, password) ==
    {r \in users : r.username = username} # {}

verify_user(users, username, password) ==
    {r \in users : r.username = username
                   /\ r.password_hash = hash_password(password)} # {}

user_exists(users, username) == {r \in users : r.username = username} # {}

load_habits(habits, username) ==
    [r \in {x \in DOMAIN habits : x.username = username} |-> habits[r]]

save_habit(habits, username, habit_name, habit_type) ==
    BagInsert(habits, [name |-> habit_name, username |-> username,
                       habit_type |-> habit_type])

\* remove_habit is two calls to the store
remove_habit_habits(habits, username, habit_name) ==
    [r \in {x \in DOMAIN habits : ~(x.name = habit_name /\ x.username = username)}
        |-> habits[r]]

\* the second delete with a filter that matches no row
remove_habit_completions_no_match(completions, username, habit_name) == completions

remove_habit_completions(completions, username, habit_name) ==
    [r \in {x \in DOMAIN completions :
                ~(x.habit_name = habit_name /\ x.username = username)}
        |-> completions[r]]

\* The dict period_key -> list of habit names, as the bag of
\* <<period_key, habit_name>> entries of its lists.
load_completions(completions, username) ==
    LET rows == {x \in DOMAIN completions : x.username = username}
        pairs == {<<x.period_key, x.habit_name>> : x \in rows}
    IN  [p \in pairs |->
            completions[[period_key |-> p[1], habit_name |-> p[2],
                         username |-> username]]]

\* toggle_completion whose delete filters period_key and habit_name on each
\* other's value, and so matches no row
toggle_completion_swapped_filter(completions, username, period_key, habit_name, is_completed) ==
    IF is_completed
    THEN BagInsert(completions, [period_key |-> period_key,
                                 habit_name |-> habit_name,
                                 username |-> username])
    ELSE [r \in {x \in DOMAIN completions :
                    ~(x.period_key = habit_name /\ x.habit_name = period_key
                      /\ x.username = username)}
            |-> completions[r]]

toggle_completion(completions, username, period_key, habit_name, is_completed) ==
    IF is_completed
    THEN BagInsert(completions, [period_key |-> period_key,
                                 habit_name |-> habit_name,
                                 username |-> username])
    ELSE [r \in {x \in DOMAIN completions :
                    ~(x.period_key = period_key /\ x.habit_name = habit_name
                      /\ x.username = username)}
            |-> completions[r]]

(***************************************************************************)
(* Bounds of the model and the inputs the sessions type.                   *)
(***************************************************************************)
MaxHabitRows == 2
MaxCompletionRows == 2
\* number of midnights the clock passes
MaxTicks == 1

\* two browser sessions
Sessions == {1, 2}

\* datetime.now() at the start: the last day of a month, a Sunday
FirstDay == [year |-> 2024, month |-> 3, day |-> 31]

UsernameInputs == {"", "u1", "u2", "u3"}
PasswordInputs == {"", "abc", "secret1", "secret2"}
CodeInputs == {"", "c0", "c1", "zz"}
HabitNameInputs == {"", "h1"}
\* the entry of the Frequency selectbox the users of the model pick: the
\* cadence whose step back in get_streak can fail
TypeInputs == {"monthly"}

VARIABLES
    users,          \* table users: rows [username, password_hash]
    access_codes,   \* table access_codes: rows [code, used, used_by]
    habits,         \* table habits: bag of rows [name, username, habit_type]
    completions,    \* table completions: bag of rows [period_key, habit_name, username]
    today,          \* the date datetime.now() returns
    ticks,          \* midnights passed
    authenticated,  \* st.session_state["authenticated"] of each session
    username,       \* st.session_state["username"] of each session
    login_form,     \* the login_username / login_password a session logged in with
    pc,             \* where the script run of each session stands
    message,        \* what the login page displayed last (st.warning, st.error, st.success)
    signup_form,    \* the fields of the Sign Up tab of the run in progress
    run,            \* locals of show_main_app of the run in progress
    last_toggle,    \* history: what the latest writes to completions did to one row
    st_args,        \* arguments of a call of get_streak
    st_result       \* the state of its loop

store == <<users, access_codes, habits, completions>>
session == <<authenticated, username, login_form>>
streak_vars == <<st_args, st_result>>
vars == <<users, access_codes, habits, completions, today, ticks, authenticated,
          username, login_form, pc, message, signup_form, run, last_toggle,
          st_args, st_result>>

NoForm == [username |-> "", password |-> "", code |-> ""]
NoLogin == [username |-> "", password |-> ""]
NoRun == [habits |-> EmptyBag, completions |-> EmptyBag, clicked |-> "",
          todo |-> {}, target |-> ""]
NoRow == [period_key |-> <<>>, habit_name |-> "", username |-> NoUser]
\* seq is "off" when the last write unchecked the row, "off-on" when the last
\* two writes unchecked it and checked it again
NoToggle == [row |-> NoRow, seq |-> ""]
NoArgs == [habit_name |-> "", habit_type |-> "", completions |-> {}, now |-> FirstDay]
NoResult == [streak |-> 0, check_date |-> FirstDay, at |-> "idle"]

SignupPcs == {"su_user_exists", "su_verify_code", "su_create_user", "su_mark_used"}
MainPcs == {"load_completions", "add", "cards", "remove", "rm_completions"}

InitStore ==
    /\ users = {[username |-> "u1", password_hash |-> hash_password("secret1")]}
    /\ access_codes = {[code |-> "c0", used |-> TRUE, used_by |-> "u1"],
                       [code |-> "c1", used |-> FALSE, used_by |-> NoUser]}
    /\ habits = EmptyBag
    /\ completions = EmptyBag
    /\ today = FirstDay
    /\ ticks = 0
    /\ last_toggle = NoToggle

InitSessions ==
    /\ authenticated = [s \in Sessions |-> FALSE]
    /\ username = [s \in Sessions |-> NoUser]
    /\ login_form = [s \in Sessions |-> NoLogin]
    /\ pc = [s \in Sessions |-> "idle"]
    /\ message = [s \in Sessions |-> ""]
    /\ signup_form = [s \in Sessions |-> NoForm]
    /\ run = [s \in Sessions |-> NoRun]

Init ==
    /\ InitStore
    /\ InitSessions
    /\ st_args = NoArgs
    /\ st_result = NoResult

(***************************************************************************)
(* show_login_page                                                         *)
(***************************************************************************)
EndRun(s, msg) ==
    /\ pc' = [pc EXCEPT ![s] = "idle"]
    /\ message' = [message EXCEPT ![s] = msg]
    /\ signup_form' = [signup_form EXCEPT ![s] = NoForm]
    /\ run' = [run EXCEPT ![s] = NoRun]

Login(s) ==
    /\ pc[s] = "idle" /\ ~authenticated[s]
    /\ \E login_username \in UsernameInputs, login_password \in PasswordInputs :
        IF login_username # "" /\ login_password # ""
        THEN IF verify_user(users, login_username, login_password)
             THEN /\ authenticated' = [authenticated EXCEPT ![s] = TRUE]
                  /\ username' = [username EXCEPT ![s] = login_username]
                  /\ login_form' = [login_form EXCEPT ![s] =
                         [username |-> login_username, password |-> login_password]]
                  /\ EndRun(s, "")
             ELSE /\ UNCHANGED <<authenticated, username, login_form>>
                  /\ EndRun(s, "Invalid username or password")
        ELSE /\ UNCHANGED <<authenticated, username, login_form>>
             /\ EndRun(s, "Please enter both fields")
    /\ UNCHANGED <<store, today, ticks, last_toggle, streak_vars>>

\* The Create Account button: the checks of lines 237-242, made on the fields.
SignupClick(s) ==
    /\ pc[s] = "idle" /\ ~authenticated[s]
    /\ \E u \in UsernameInputs, p \in PasswordInputs, c \in PasswordInputs,
          code \in CodeInputs :
        IF u = "" \/ p = "" \/ c = "" \/ code = ""
        THEN EndRun(s, "Please fill in all fields")
        ELSE IF Len(p) < 6
        THEN EndRun(s, "Password must be at least 6 characters")
        ELSE IF p # c
        THEN EndRun(s, "Passwords do not match")
        ELSE /\ pc' = [pc EXCEPT ![s] = "su_user_exists"]
             /\ message' = [message EXCEPT ![s] = ""]
             /\ signup_form' = [signup_form EXCEPT ![s] =
                                   [username |-> u, password |-> p, code |-> code]]
             /\ UNCHANGED run
    /\ UNCHANGED <<store, today, ticks, last_toggle, session, streak_vars>>

SignupUserExists(s) ==
    /\ pc[s] = "su_user_exists"
    /\ IF user_exists(users, signup_form[s].username)
       THEN EndRun(s, "Username already taken")
       ELSE /\ pc' = [pc EXCEPT ![s] = "su_verify_code"]
            /\ UNCHANGED <<message, signup_form, run>>
    /\ UNCHANGED <<store, today, ticks, last_toggle, session, streak_vars>>

SignupVerifyCode(s) ==
    /\ pc[s] = "su_verify_code"
    /\ IF ~verify_access_code(access_codes, signup_form[s].code)
       THEN EndRun(s, "Invalid or already used access code")
       ELSE /\ pc' = [pc EXCEPT ![s] = "su_create_user"]
            /\ UNCHANGED <<message, signup_form, run>>
    /\ UNCHANGED <<store, today, ticks, last_toggle, session, streak_vars>>

SignupCreateUser(s) ==
    /\ pc[s] = "su_create_user"
    /\ \E dbFail \in BOOLEAN :
        LET r == create_user(users, signup_form[s].username,
                             signup_form[s].password, dbFail)
        IN  /\ users' = r.users
            /\ IF r.ok
               THEN /\ pc' = [pc EXCEPT ![s] = "su_mark_used"]
                    /\ UNCHANGED <<message, signup_form, run>>
               ELSE EndRun(s, "Failed to create account")
    /\ UNCHANGED <<access_codes, habits, completions, today, ticks, last_toggle,
                   session, streak_vars>>

SignupMarkUsed(s) ==
    /\ pc[s] = "su_mark_used"
    /\ access_codes' = mark_access_code_used(access_codes, signup_form[s].code,
                                             signup_form[s].username)
    /\ EndRun(s, "Account created! Please login.")
    /\ UNCHANGED <<users, habits, completions, today, ticks, last_toggle, session,
                   streak_vars>>

(***************************************************************************)
(* show_main_app                                                           *)
(***************************************************************************)

\* The logout button: session_state.clear(), st.rerun(), and main() sets
\* "authenticated" to False again at the start of the new run.
Logout(s) ==
    /\ pc[s] = "idle" /\ authenticated[s]
    /\ authenticated' = [authenticated EXCEPT ![s] = FALSE]
    /\ username' = [username EXCEPT ![s] = NoUser]
    /\ login_form' = [login_form EXCEPT ![s] = NoLogin]
    /\ EndRun(s, "")
    /\ UNCHANGED <<store, today, ticks, last_toggle, streak_vars>>

\* A script run of the main app starts: load_habits.
RunStart(s) ==
    /\ pc[s] = "idle" /\ authenticated[s]
    /\ run' = [run EXCEPT ![s] = [NoRun EXCEPT !.habits = load_habits(habits, username[s])]]
    /\ pc' = [pc EXCEPT ![s] = "load_completions"]
    /\ message' = [message EXCEPT ![s] = ""]
    /\ UNCHANGED <<store, today, ticks, last_toggle, session, signup_form, streak_vars>>

\* Where the run goes after the Add Habit expander: the sections of the
\* habits, or the end of the script when there is no habit.
AfterAdd(s) == IF DOMAIN run[s].habits = {} THEN "idle" ELSE "cards"

LoadCompletions(s) ==
    /\ pc[s] = "load_completions"
    /\ run' = [run EXCEPT ![s].completions = load_completions(completions, username[s]),
                          ![s].todo = DOMAIN run[s].habits]
    /\ \E add_habit_btn \in BOOLEAN :
        pc' = [pc EXCEPT ![s] = IF add_habit_btn THEN "add" ELSE AfterAdd(s)]
    /\ UNCHANGED <<store, today, ticks, last_toggle, session, message, signup_form,
                   streak_vars>>

existing_names(s) == {h.name : h \in DOMAIN run[s].habits}

AddHabit(s) ==
    /\ pc[s] = "add"
    /\ \E new_habit \in HabitNameInputs, habit_type \in TypeInputs :
        IF new_habit # "" /\ new_habit \notin existing_names(s)
        THEN /\ BagSize(habits) < MaxHabitRows
             /\ habits' = save_habit(habits, username[s], new_habit, habit_type)
             /\ EndRun(s, "")
        ELSE /\ UNCHANGED habits
             /\ pc' = [pc EXCEPT ![s] = AfterAdd(s)]
             /\ run' = [run EXCEPT ![s].clicked = "add"]
             /\ UNCHANGED <<message, signup_form>>
    /\ UNCHANGED <<users, access_codes, completions, today, ticks, last_toggle,
                   session, streak_vars>>

\* render_habit_section is called for daily, weekly, monthly in this order
SectionOrder(habit_type) ==
    IF habit_type = "daily" THEN 1 ELSE IF habit_type = "weekly" THEN 2 ELSE 3

NextCards(s) ==
    {h \in run[s].todo :
        \A g \in run[s].todo : SectionOrder(h.habit_type) <= SectionOrder(g.habit_type)}

\* completions.setdefault(period_key, []).append(habit_name)
LocalAppend(loaded, entry) == BagInsert(loaded, entry)

\* completions[period_key].remove(habit_name): the first occurrence
LocalRemove(loaded, entry) ==
    IF loaded[entry] > 1 THEN [loaded EXCEPT ![entry] = loaded[entry] - 1]
    ELSE [e \in DOMAIN loaded \ {entry} |-> loaded[e]]

CompletionRow(u, habit_name, period_key) ==
    [period_key |-> period_key, habit_name |-> habit_name, username |-> u]

\* render_habit_card for one habit of the loaded list.  A ValueError of
\* get_streak ends the run; so does the second card of a habit row stored
\* twice, whose checkbox has the key of the first.  The dict of completions
\* is not read after the last card.
RenderCard(s) ==
    /\ pc[s] = "cards" /\ run[s].todo # {}
    /\ \E habit \in NextCards(s) :
        LET habit_name == habit.name
            habit_type == habit.habit_type
            period_key == get_period_key(habit_type, today)
            entry == <<period_key, habit_name>>
            is_completed == entry \in DOMAIN run[s].completions
            streak == get_streak(habit_name, habit_type,
                                 DOMAIN run[s].completions, today)
            rest == run[s].todo \ {habit}
            duplicate == run[s].habits[habit] > 1
        IN  IF streak.raised
            THEN /\ EndRun(s, "")
                 /\ UNCHANGED <<completions, last_toggle>>
            ELSE \E checkbox_value \in BOOLEAN :
                /\ IF checkbox_value # is_completed
                   THEN /\ checkbox_value => BagSize(completions) < MaxCompletionRows
                        /\ completions' = toggle_completion(completions, username[s],
                                              period_key, habit_name, checkbox_value)
                        /\ last_toggle' =
                              LET row == CompletionRow(username[s], habit_name, period_key)
                              IN  IF ~checkbox_value THEN [row |-> row, seq |-> "off"]
                                  ELSE IF last_toggle = [row |-> row, seq |-> "off"]
                                  THEN [row |-> row, seq |-> "off-on"]
                                  ELSE NoToggle
                   ELSE UNCHANGED <<completions, last_toggle>>
                /\ IF duplicate
                   THEN EndRun(s, "")
                   ELSE /\ run' = [run EXCEPT
                               ![s].completions =
                                   IF rest = {} THEN EmptyBag
                                   ELSE IF checkbox_value = is_completed THEN @
                                   ELSE IF checkbox_value THEN LocalAppend(@, entry)
                                   ELSE LocalRemove(@, entry),
                               ![s].todo = rest]
                        /\ pc' = [pc EXCEPT ![s] = IF rest = {} THEN "remove" ELSE "cards"]
                        /\ UNCHANGED <<message, signup_form>>
    /\ UNCHANGED <<users, access_codes, habits, today, ticks, session, streak_vars>>

\* The Remove Habit expander: without a click the script ends; with one
\* (not in a run the Add button started), remove_habit makes its first call,
\* the delete on habits.
RemoveClick(s) ==
    /\ pc[s] = "remove"
    /\ \E remove_btn \in {FALSE, run[s].clicked # "add"} :
        IF remove_btn
        THEN \E habit_to_remove \in existing_names(s) :
               /\ habits' = remove_habit_habits(habits, username[s], habit_to_remove)
               /\ run' = [run EXCEPT ![s] = [NoRun EXCEPT !.target = habit_to_remove]]
               /\ pc' = [pc EXCEPT ![s] = "rm_completions"]
               /\ UNCHANGED <<message, signup_form>>
        ELSE /\ EndRun(s, "")
             /\ UNCHANGED habits
    /\ UNCHANGED <<users, access_codes, completions, today, ticks, last_toggle,
                   session, streak_vars>>

\* The second call of remove_habit, the delete on completions.
RemoveCompletions(s) ==
    /\ pc[s] = "rm_completions"
    /\ completions' = remove_habit_completions(completions, username[s], run[s].target)
    /\ last_toggle' = NoToggle
    /\ EndRun(s, "")
    /\ UNCHANGED <<users, access_codes, habits, today, ticks, session, streak_vars>>

\* A script run dies between two calls to the store (the server stops, or a
\* call raises): nothing it had not yet written is written.
Crash(s) ==
    /\ pc[s] # "idle"
    /\ EndRun(s, "")
    /\ UNCHANGED <<store, today, ticks, last_toggle, session, streak_vars>>

\* Midnight passes.
Tick ==
    /\ ticks < MaxTicks
    /\ ticks' = ticks + 1
    /\ today' = FromOrdinal(ToOrdinal(today) + 1)
    /\ UNCHANGED <<store, last_toggle, session, pc, message, signup_form, run,
                   streak_vars>>

Next ==
    \/ \E s \in Sessions : Login(s)
    \/ \E s \in Sessions : SignupClick(s)
    \/ \E s \in Sessions : SignupUserExists(s)
    \/ \E s \in Sessions : SignupVerifyCode(s)
    \/ \E s \in Sessions : SignupCreateUser(s)
    \/ \E s \in Sessions : SignupMarkUsed(s)
    \/ \E s \in Sessions : Logout(s)
    \/ \E s \in Sessions : RunStart(s)
    \/ \E s \in Sessions : LoadCompletions(s)
    \/ \E s \in Sessions : AddHabit(s)
    \/ \E s \in Sessions : RenderCard(s)
    \/ \E s \in Sessions : RemoveClick(s)
    \/ \E s \in Sessions : RemoveCompletions(s)
    \/ \E s \in Sessions : Crash(s)
    \/ Tick

Spec == Init /\ [][Next]_vars

\* The login page alone: sign-up, login and logout of the sessions.
NextAuth ==
    \/ \E s \in Sessions : Login(s)
    \/ \E s \in Sessions : SignupClick(s)
    \/ \E s \in Sessions : SignupUserExists(s)
    \/ \E s \in Sessions : SignupVerifyCode(s)
    \/ \E s \in Sessions : SignupCreateUser(s)
    \/ \E s \in Sessions : SignupMarkUsed(s)
    \/ \E s \in Sessions : Logout(s)
    \/ \E s \in Sessions : Crash(s)

SpecAuth == Init /\ [][NextAuth]_vars

\* The sessions of the users that exist at the start: login, the main app, logout.
NextApp ==
    \/ \E s \in Sessions : Login(s)
    \/ \E s \in Sessions : Logout(s)
    \/ \E s \in Sessions : RunStart(s)
    \/ \E s \in Sessions : LoadCompletions(s)
    \/ \E s \in Sessions : AddHabit(s)
    \/ \E s \in Sessions : RenderCard(s)
    \/ \E s \in Sessions : RemoveClick(s)
    \/ \E s \in Sessions : RemoveCompletions(s)
    \/ \E s \in Sessions : Crash(s)
    \/ Tick

SpecApp == Init /\ [][NextApp]_vars

(***************************************************************************)
(* Calls of get_streak on chosen arguments: the habit "h1", a cadence, a   *)
(* date for datetime.now() and a dict of completions.                      *)
(***************************************************************************)

\* how many periods before the current one the chosen completions reach
MaxBack == 3
\* length of the one long run of completed days
LongRun == 370

NowInputs == {[year |-> 2024, month |-> 3, day |-> 10],
              [year |-> 2024, month |-> 3, day |-> 31],
              [year |-> 2024, month |-> 5, day |-> 30],
              [year |-> 2024, month |-> 1, day |-> 1],
              [year |-> 2025, month |-> 1, day |-> 3]}

CadenceInputs == KnownTypes \cup {"yearly"}

RECURSIVE MonthsBack(_, _)
MonthsBack(date, i) ==
    IF i = 0 THEN [year |-> date.year, month |-> date.month, day |-> 1]
    ELSE LET d == MonthsBack(date, i - 1)
         IN  IF d.month = 1 THEN [year |-> d.year - 1, month |-> 12, day |-> 1]
             ELSE [year |-> d.year, month |-> d.month - 1, day |-> 1]

\* A day of the i-th period before the one of now: i days, i weeks or i
\* calendar months earlier.
PeriodDate(habit_type, now, i) ==
    IF habit_type = "weekly" THEN MinusDays(now, 7 * i)
    ELSE IF habit_type = "monthly" THEN MonthsBack(now, i)
    ELSE MinusDays(now, i)

PeriodKey(habit_type, now, i) == get_period_key(habit_type, PeriodDate(habit_type, now, i))

\* The dict in which "h1" is complete in the periods of back, and another
\* habit in every one of them.
CompletionsOf(habit_type, now, back) ==
    {<<PeriodKey(habit_type, now, i), "h1">> : i \in back}
        \cup {<<PeriodKey(habit_type, now, i), "h2">> : i \in 0..MaxBack}

StreakInputs ==
    {[habit_name |-> "h1", habit_type |-> t, now |-> n,
      completions |-> CompletionsOf(t, n, back)] :
        t \in CadenceInputs, n \in NowInputs, back \in SUBSET (0..MaxBack)}
    \cup
    {[habit_name |-> "h1", habit_type |-> "daily", now |-> n,
      completions |-> CompletionsOf("daily", n, 0..(LongRun - 1))] : n \in NowInputs}

InitStreak ==
    /\ InitStore
    /\ InitSessions
    /\ st_args \in StreakInputs
    /\ st_result = NoResult

\* lines 174-175
StreakEnter ==
    /\ st_result.at = "idle"
    /\ st_result' = streak_enter(st_args.now)
    /\ UNCHANGED <<store, today, ticks, last_toggle, session, pc, message,
                   signup_form, run, st_args>>

\* lines 177-195, once
StreakIterate ==
    /\ st_result.at = "loop"
    /\ st_result' = streak_body(st_result, st_args.habit_name, st_args.habit_type,
                                st_args.completions)
    /\ UNCHANGED <<store, today, ticks, last_toggle, session, pc, message,
                   signup_form, run, st_args>>

NextStreak == StreakEnter \/ StreakIterate

SpecStreak == InitStreak /\ [][NextStreak]_vars

\* h1 is complete in the current period and the n - 1 before it, and not in
\* the one before those
CompleteExactly(n) ==
    /\ \A i \in 0..(n - 1) :
          <<PeriodKey(st_args.habit_type, st_args.now, i), "h1">> \in st_args.completions
    /\ <<PeriodKey(st_args.habit_type, st_args.now, n), "h1">> \notin st_args.completions

\* C1: for daily, weekly and monthly habits, when the habit is complete in the
\* current period and the N-1 periods before it and not in the one before
\* those, get_streak returns N.
C1_StreakIsN ==
    (st_result.at \in {"return", "ValueError"} /\ st_args.habit_type \in KnownTypes) =>
        \A n \in 1..(MaxBack + 1) :
            CompleteExactly(n) => (st_result.at = "return" /\ st_result.streak = n)

\* C5: get_streak never returns more than 365, whatever the cadence.
C5_StreakAtMost365 ==
    st_result.at = "return" => st_result.streak <= 365

(***************************************************************************)
(* Properties of sign-up (SpecAuth)                                        *)
(***************************************************************************)
InitialUsernames == {"u1"}
InitialUnusedCodes == {"c1"}

\* C2: an access code gates at most one account: the sign-ups never create
\* more accounts than there were unused codes.
C2_OneAccountPerCode ==
    Cardinality({r \in users : r.username \notin InitialUsernames})
        <= Cardinality(InitialUnusedCodes)

SignupRejections ==
    {"Please fill in all fields", "Password must be at least 6 characters",
     "Passwords do not match", "Username already taken",
     "Invalid or already used access code", "Failed to create account"}

\* the step is one of session s
Acted(s) == pc'[s] # pc[s] \/ message'[s] # message[s]

\* C8: a step in which a sign-up is rejected leaves users and access_codes as
\* they were.
C8_RejectedSignupWritesNothing ==
    [][\A s \in Sessions :
          (Acted(s) /\ message'[s] \in SignupRejections)
              => (users' = users /\ access_codes' = access_codes)]_vars

\* a sign-up was rejected by the failed insert of a username another session
\* had just taken
C8_Witness ==
    \E s \in Sessions :
        /\ message[s] = "Failed to create account"
        /\ \E r \in users : r.username \notin InitialUsernames

\* C9: a used access code names in used_by an existing user, also after a
\* crash between the two writes of sign-up.
C9_UsedCodeHasUser ==
    \A r \in access_codes : r.used => \E u \in users : u.username = r.used_by

\* sign-up has consumed the code c1
C9_Witness ==
    \E r \in access_codes : r.code \in InitialUnusedCodes /\ r.used

(***************************************************************************)
(* Properties of the main app (SpecApp)                                    *)
(***************************************************************************)
CompletionsOfHabit(u, habit_name) ==
    {row \in DOMAIN completions : row.username = u /\ row.habit_name = habit_name}

\* C3: when remove_habit has made its second call, no completion row of the
\* user has the name of the removed habit.
C3_RemoveLeavesNoCompletion ==
    [][\A s \in Sessions :
          RemoveCompletions(s) =>
              \A row \in DOMAIN completions' :
                  ~(row.username = username[s] /\ row.habit_name = run[s].target)]_vars

\* remove_habit is between its two calls, the habit has completions, and
\* another session of the user is rendering the cards of a list with the habit
C3_Witness ==
    \E s, t \in Sessions :
        /\ s # t
        /\ pc[s] = "rm_completions"
        /\ CompletionsOfHabit(username[s], run[s].target) # {}
        /\ pc[t] = "cards" /\ username[t] = username[s]
        /\ \E h \in run[t].todo : h.name = run[s].target

\* C4: when the last two writes to completions unchecked a row and checked it
\* again, the store holds exactly one copy of the row.
C4_OffOnLeavesOne ==
    last_toggle.seq = "off-on" =>
        (last_toggle.row \in DOMAIN completions /\ completions[last_toggle.row] = 1)

C4_Witness == last_toggle.seq = "off-on"

\* C6: every completion row references a habit row of the same user.
C6_CompletionHasHabit ==
    \A row \in DOMAIN completions :
        \E h \in DOMAIN habits : h.username = row.username /\ h.name = row.habit_name

\* C7: no user has two habit rows with the same name.
C7_NoDuplicateHabit ==
    \A h \in DOMAIN habits :
        /\ habits[h] = 1
        /\ \A g \in DOMAIN habits : (g.username = h.username /\ g.name = h.name) => g = h

\* C10: an authenticated session logged in with the username and password of
\* a stored user and carries that username; the main app runs only in
\* authenticated sessions.
C10_AuthenticatedByLogin ==
    \A s \in Sessions :
        /\ authenticated[s] =>
              /\ username[s] = login_form[s].username
              /\ \E u \in users :
                    /\ u.username = login_form[s].username
                    /\ u.password_hash = hash_password(login_form[s].password)
        /\ pc[s] \in MainPcs => authenticated[s]

\* a session that logged in as u1 is running the main app
C10_Witness ==
    \E s \in Sessions :
        /\ authenticated[s] /\ login_form[s].username = "u1"
        /\ pc[s] \in MainPcs

====
